---- MODULE Spec2Model ----
(***************************************************************************)
(* Client-side session layer of the MediRAG frontend: the shared axios     *)
(* client `api` (src/frontend-app/src/api/axios.js) with its request       *)
(* interceptor (bearer stamping) and its response interceptor (one token   *)
(* renewal per request, replay, session termination), the token store      *)
(* (localStorage keys access_token / refresh_token / role), and the App    *)
(* handlers that write the store (login continuation, logout).             *)
(*                                                                         *)
(* One step of the model is one JavaScript task: a handler runs from the   *)
(* event that starts it (a call, a response arriving) to its next await on *)
(* the network.  Several logical calls may be in flight at once.           *)
(***************************************************************************)
EXTENDS Integers, Sequences, FiniteSets, TLC

(* ---------------------------- bounds ----------------------------------- *)

\* number of logical calls made through `api` in one behaviour
MaxCalls == 2
\* calls in flight at a time in the specification driven through the views
MaxViewCalls == 1

CallIds == 1..MaxCalls

(* ---------------------------- values ----------------------------------- *)

\* localStorage.getItem of a key that is not stored / an undefined field
Null == "<null>"

\* a stored empty string (login writes `loginRes.refresh_token || ""`)
Empty == ""

AccessTokens == {"a1", "a2"}
RefreshTokens == {"r1"}
Roles == {"user"}

\* slip: the value is tested against null only, "" counts as present
TruthyNotNull(v) == v # Null

\* JavaScript truthiness of a string-or-null value: null, undefined and ""
\* are falsy, every other string is truthy
Truthy(v) == v # Null /\ v # Empty

\* the Authorization header: absent, or `Bearer ${token}`
NoHeader == <<>>
Bearer(token) == <<"Bearer", token>>

\* request URLs, as sequences of path segments
RefreshPath == <<"auth", "refresh">>
LoginPath == <<"auth", "login">>
RegisterPath == <<"auth", "register">>
ForgotPath == <<"auth", "forgot-password">>
VerifyPath == <<"auth", "verify-otp">>
ResetPath == <<"auth", "reset-password">>
MePath == <<"auth", "me">>
ChatPath == <<"chat", "ask">>
Urls == {ChatPath, LoginPath, <<"v1", "auth", "refresh">>}

\* String.prototype.includes, on path segments: pat occurs contiguously in s
Includes(s, pat) ==
    \E i \in 1..(Len(s) - Len(pat) + 1) : SubSeq(s, i, i + Len(pat) - 1) = pat

\* HTTP statuses of a failed response; 0 stands for "no response at all"
\* (network error or the 120000 ms timeout: error.response is undefined)
NoResponse == 0
ErrStatuses == {NoResponse, 401, 403}

\* the error object a failed transmission rejects with: which transmission
\* of the logical call it belongs to, and the status of its response
NoError == [attempt |-> 0, status |-> 0]
ErrorOf(n, st) == [attempt |-> n, status |-> st]

NoOutcome == [kind |-> "none", attempt |-> 0, status |-> 0]
Resolved(n) == [kind |-> "resolve", attempt |-> n, status |-> 200]
Rejected(e) == [kind |-> "reject", attempt |-> e.attempt, status |-> e.status]

\* bodies of a successful /auth/login response (fields the client uses)
LoginBodies ==
    [access_token : AccessTokens, refresh_token : RefreshTokens \cup {Null},
     role : Roles \cup {Null}]

\* /auth/login responses whose access_token is the empty string
EmptyLoginBodies ==
    [access_token : {Empty}, refresh_token : RefreshTokens \cup {Null},
     role : Roles]

\* bodies of a successful /auth/refresh response
RefreshBodies == [access_token : AccessTokens \cup {Null}]

(* ---------------------------- state ------------------------------------ *)

VARIABLES
    store,      \* localStorage: access_token, refresh_token, role
    pc,         \* per logical call: idle, sent, refreshing, replayed, settled
    config,     \* per call: the request config (url, _retry, Authorization)
    error,      \* per call: the error the response interceptor is handling
    outcome,    \* per call: what the caller's promise settled with
    renewal,    \* per call: none, pending, ok, rejected, empty
    newToken,   \* per call: access_token returned by its renewal call
    nTx,        \* per call: transmissions of the request through `api`
    nRefresh,   \* per call: POSTs to /auth/refresh made for it
    nUnauth,    \* per call: auth:unauthorized events dispatched for it
    nHandled,   \* per call: runs of the response error interceptor for it
    overlap,    \* calls whose renewal was in flight together with another's
    appToken,   \* App: the `token` state (which view is rendered)
    delivered,  \* auth:unauthorized events dispatched by the latest task,
                \* each as the localStorage its handlers found
    panel,      \* AuthPanel: mode, step, loading, form, devOtp, the call
                \* its handler awaits, and of the latest task: the submit
                \* handler it ran, the call it resumed from and the toasts
                \* it added
    wrapper     \* one call of an api wrapper seen alone: the wrapper, the
                \* error its catch block is given, and what it throws

callVars == <<pc, config, error, outcome, renewal, newToken,
              nTx, nRefresh, nUnauth, nHandled, overlap>>

vars == <<store, pc, config, error, outcome, renewal, newToken,
          nTx, nRefresh, nUnauth, nHandled, overlap, appToken, delivered,
          panel, wrapper>>

\* what the catch block of an api wrapper is given: an axios error without
\* a response (network failure; also the Error("Query is required") thrown
\* inside the try block), or one with the response of the server, whose
\* data is the body of the response, EmptyBody when it is empty
EmptyBody == [empty |-> TRUE]
ErrorBodies ==
    {[error |-> "e", message |-> "m"], [error |-> "e"], [detail |-> "d"]}
TransportErrors ==
    {[response |-> FALSE, status |-> 0, data |-> EmptyBody]}
      \cup [response : {TRUE}, status : {401, 403, 500},
            data : ErrorBodies \cup {EmptyBody}]

NotThrown == [pending |-> TRUE]
NoWrapperCall ==
    [name |-> "", error |-> [response |-> FALSE, status |-> 0, data |-> EmptyBody],
     thrown |-> NotThrown]

Cleared == [access_token |-> Null, refresh_token |-> Null, role |-> Null]

\* what localStorage may hold when the page loads: nothing, a session left
\* by an earlier login, or one whose login response had no refresh_token
InitStores ==
    {Cleared,
     [access_token |-> "a1", refresh_token |-> "r1", role |-> "user"],
     [access_token |-> "a1", refresh_token |-> Empty, role |-> "user"]}

NoData == [email |-> "", otp |-> ""]

NewConfig ==
    [url |-> <<>>, retry |-> FALSE, Authorization |-> NoHeader, data |-> NoData]

\* the useState initial values of AuthPanel
InitPanel ==
    [mode |-> "login", step |-> "request", loading |-> FALSE,
     form |-> [email |-> "", otp |-> "", newPassword |-> ""],
     devOtp |-> "", codeEmail |-> "", awaiting |-> 0, ran |-> "",
     resumed |-> <<>>, toasts |-> <<>>]

\* the AuthPanel after a task that ran no submit handler and added no toast
Quiet(p) == [p EXCEPT !.ran = "", !.resumed = <<>>, !.toasts = <<>>]

\* a settled call's request is no longer used by the client: the model
\* keeps its _retry mark and drops its url and headers
Release(cfg) == [NewConfig EXCEPT !.retry = cfg.retry]

InitApp ==
    /\ store \in InitStores
    /\ pc = [c \in CallIds |-> "idle"]
    /\ config = [c \in CallIds |-> NewConfig]
    /\ error = [c \in CallIds |-> NoError]
    /\ outcome = [c \in CallIds |-> NoOutcome]
    /\ renewal = [c \in CallIds |-> "none"]
    /\ newToken = [c \in CallIds |-> Null]
    /\ nTx = [c \in CallIds |-> 0]
    /\ nRefresh = [c \in CallIds |-> 0]
    /\ nUnauth = [c \in CallIds |-> 0]
    /\ nHandled = [c \in CallIds |-> 0]
    /\ overlap = {}
    /\ appToken = store.access_token
    /\ delivered = <<>>
    /\ panel = InitPanel

Init == InitApp /\ wrapper = NoWrapperCall

(* ---------------------- request interceptor ---------------------------- *)

\* slip: the header is written without the `if (token)` test
RequestInterceptorAlways(h, token) == Bearer(token)

\* api.interceptors.request.use: the Authorization header of a config whose
\* header was h, when localStorage holds `token` under access_token
RequestInterceptor(h, token) == IF Truthy(token) THEN Bearer(token) ELSE h

\* api.post / api.get / api(config): run the request interceptor over the
\* config and hand it to the network
Transmit(cfg) ==
    [cfg EXCEPT !.Authorization = RequestInterceptor(@, store'.access_token)]

\* a caller starts logical call c on `api` for url u; calls are numbered
\* in the order in which they are made
Request(c, u) ==
    /\ pc[c] = "idle"
    /\ \A b \in CallIds : b < c => pc[b] # "idle"
    /\ store' = store
    /\ config' = [config EXCEPT ![c] = Transmit([NewConfig EXCEPT !.url = u])]
    /\ pc' = [pc EXCEPT ![c] = "sent"]
    /\ nTx' = [nTx EXCEPT ![c] = 1]
    /\ delivered' = <<>>
    /\ UNCHANGED <<error, outcome, renewal, newToken, nRefresh, nUnauth,
                   nHandled, overlap, appToken, panel>>
    /\ wrapper' = wrapper

\* the slots the calls of the ChatPanel and the AuthPanel are made in
ViewCalls == 1..MaxViewCalls

\* a slot of the model is free for a new logical call once the call it
\* held has settled; the lowest free slot is taken
FreeSlot(c) ==
    /\ c \in ViewCalls
    /\ pc[c] \in {"idle", "settled"}
    /\ \A b \in CallIds : b < c => pc[b] \notin {"idle", "settled"}

\* api.post(u, ...) / api.get(u) by a wrapper of the api modules: a new
\* logical call in slot c
StartCall(c, u, d) ==
    /\ store' = store
    /\ config' = [config EXCEPT
                    ![c] = Transmit([NewConfig EXCEPT !.url = u, !.data = d])]
    /\ pc' = [pc EXCEPT ![c] = "sent"]
    /\ nTx' = [nTx EXCEPT ![c] = 1]
    /\ error' = [error EXCEPT ![c] = NoError]
    /\ outcome' = [outcome EXCEPT ![c] = NoOutcome]
    /\ renewal' = [renewal EXCEPT ![c] = "none"]
    /\ newToken' = [newToken EXCEPT ![c] = Null]
    /\ nRefresh' = [nRefresh EXCEPT ![c] = 0]
    /\ nUnauth' = [nUnauth EXCEPT ![c] = 0]
    /\ nHandled' = [nHandled EXCEPT ![c] = 0]
    /\ overlap' = overlap \ {c}

\* the AuthPanel handler that made call c is suspended at its await, and
\* c is a call to one of the urls us
Awaited(c, us) == panel.awaiting = c /\ config[c].url \in us

\* the wrapper an AuthPanel handler calls right after its first await:
\* loginUser after registerUser, resetPasswordWithOtp after
\* verifyPasswordResetOtp
SecondCall(u) == IF u = RegisterPath THEN LoginPath ELSE ResetPath

\* slip: the second wrapper is given the form as it is when the first
\* call resolves
SecondDataCurrent(c) ==
    IF config[c].url = VerifyPath
    THEN [email |-> IF panel.form.email = " " THEN "" ELSE panel.form.email,
          otp |-> panel.form.otp]
    ELSE NoData

\* the email and otp the handler gives its second wrapper: form is the
\* const of the render the handler was created in, so both wrappers of
\* handleOtpVerifyAndReset are given the same form.email.trim() and
\* form.otp.trim()
SecondData(c) == config[c].data

(* ---------------------- response interceptor --------------------------- *)

\* slip: every 4xx status is taken for "unauthorized"
IsUnauthorizedAny4xx(status) == status >= 400 /\ status < 500

\* const isUnauthorized = error.response?.status === 401
IsUnauthorized(status) == status = 401

\* const isRefreshCall = originalRequest?.url?.includes("/auth/refresh")
IsRefreshCall(cfg) == Includes(cfg.url, RefreshPath)

\* slip: the !hasRetried test is left out
EligibleNoRetryCheck(status, cfg, refreshToken) ==
    /\ IsUnauthorized(status)
    /\ ~IsRefreshCall(cfg)
    /\ Truthy(refreshToken)

\* slip: the !isRefreshCall test is left out
EligibleAnyUrl(status, cfg, refreshToken) ==
    /\ IsUnauthorized(status)
    /\ ~cfg.retry
    /\ Truthy(refreshToken)

\* slip: a single-flight guard, no renewal while another one is pending
EligibleSingleFlight(status, cfg, refreshToken) ==
    /\ IsUnauthorized(status)
    /\ ~cfg.retry
    /\ ~IsRefreshCall(cfg)
    /\ Truthy(refreshToken)
    /\ \A d \in CallIds : pc[d] # "refreshing"

\* slip: calls to the /auth/ endpoints are never renewed
EligibleNotAuth(status, cfg, refreshToken) ==
    /\ IsUnauthorized(status)
    /\ ~cfg.retry
    /\ ~Includes(cfg.url, <<"auth">>)
    /\ Truthy(refreshToken)

\* the two nested conditions under which the renewal is attempted
Eligible(status, cfg, refreshToken) ==
    /\ IsUnauthorized(status)
    /\ ~cfg.retry
    /\ ~IsRefreshCall(cfg)
    /\ Truthy(refreshToken)

\* slip: refresh_token is not removed (as in the older logoutUser)
TerminatedStoreKeepRefresh(s) ==
    [s EXCEPT !.access_token = Null, !.role = Null]

\* the three removeItem calls of the interceptor's logout branch
TerminatedStore(s) == Cleared

\* slip: the renewal POST is made on the intercepted client
RenewalClientApi == "api"

\* the client the renewal POST is made on, and whether a client carries the
\* response interceptor (only `api` registers one)
RenewalClient == "refreshClient"
Intercepted(client) == client = "api"

\* slip: the replay is not guarded by `if (newAccessToken)`
ReplayAllowedAlways(newAccessToken) == TRUE

\* if (newAccessToken) { ... return api(originalRequest) }
ReplayAllowed(newAccessToken) == Truthy(newAccessToken)

\* slip: the renewed token is put on the header but not stored
StoreRenewedNoWrite(s, newAccessToken) == s

\* slip: the store is rewritten from the renewal body, which carries
\* neither refresh_token nor role
StoreRenewedFromBody(s, newAccessToken) ==
    [access_token |-> newAccessToken, refresh_token |-> Null, role |-> Null]

\* slip: the renewed token is stored only when no token is stored
StoreRenewedKeepFirst(s, newAccessToken) ==
    IF Truthy(s.access_token) THEN s
    ELSE [s EXCEPT !.access_token = newAccessToken]

\* localStorage.setItem("access_token", newAccessToken)
StoreRenewed(s, newAccessToken) == [s EXCEPT !.access_token = newAccessToken]

\* slip: the replay is built as a fresh config, losing the _retry mark
ReplayConfigFresh(cfg, newAccessToken) ==
    [cfg EXCEPT !.Authorization = Bearer(newAccessToken), !.retry = FALSE]

\* originalRequest.headers.Authorization = `Bearer ${newAccessToken}`; the
\* same config object, with its _retry mark, is what api() is called on
ReplayConfig(cfg, newAccessToken) ==
    [cfg EXCEPT !.Authorization = Bearer(newAccessToken)]

\* slip: the event is dispatched before the removeItem calls
StoreAtDispatchNotCleared(s) == s

\* window.dispatchEvent(new Event("auth:unauthorized")) comes after the
\* three removeItem calls: the localStorage its handlers find
StoreAtDispatch(s) == TerminatedStore(s)

\* n events dispatched in one task, each finding localStorage as s
Events(n, s) == [i \in 1..n |-> s]

\* slip: the listener leaves the token as it is
handleUnauthorizedIgnored(token) == token

\* App.handleUnauthorized, the registered listener: setToken(null)
handleUnauthorized(token) == Null

\* the App's `token` after a task that dispatched the events ev
AfterEvents(token, ev) == IF Len(ev) > 0 THEN handleUnauthorized(token) ELSE token

\* onAuthSuccess: setToken(localStorage.getItem("access_token")), called
\* after the three setItem calls of the login continuation
onAuthSuccess(s) == s.access_token

\* App's render: {!token ? <AuthPanel .../> : <ChatPanel .../>}
View == IF ~Truthy(appToken) THEN "AuthPanel" ELSE "ChatPanel"

\* bodies of a successful /auth/forgot-password response: otp is sent in
\* dev mode only
OtpBodies == [otp : {Null, "123456"}]

\* slip: the catch block also takes the flow back to its first step
FailedRestart(p) ==
    [Quiet(p) EXCEPT !.toasts = <<"error">>, !.loading = FALSE, !.awaiting = 0,
                     !.step = "request"]

\* catch (error) { addToast(..., "error") } finally { setLoading(false) }
Failed(p) ==
    [Quiet(p) EXCEPT !.toasts = <<"error">>, !.loading = FALSE, !.awaiting = 0]

\* AuthPanel.handleOtpRequest after requestPasswordResetOtp resolved with
\* res: setDevOtp(res.otp || ""), setStep("verify"), the success toasts,
\* setLoading(false); codeEmail records the email the call was made for
OtpRequested(p, res, email) ==
    [Quiet(p) EXCEPT !.devOtp = IF Truthy(res.otp) THEN res.otp ELSE "",
                     !.codeEmail = email,
                     !.step = "verify",
                     !.toasts = IF Truthy(res.otp)
                                THEN <<"success", "success">>
                                ELSE <<"success">>,
                     !.loading = FALSE,
                     !.awaiting = 0]

\* slip: the entered otp and the dev-mode code are kept
PasswordResetKeepOtp(p) ==
    [Quiet(p) EXCEPT !.mode = "login",
                     !.step = "request",
                     !.codeEmail = "",
                     !.form = [@ EXCEPT !.newPassword = ""],
                     !.toasts = <<"success">>,
                     !.loading = FALSE,
                     !.awaiting = 0]

\* AuthPanel.handleOtpVerifyAndReset after resetPasswordWithOtp resolved
PasswordReset(p) ==
    [Quiet(p) EXCEPT !.mode = "login",
                     !.step = "request",
                     !.devOtp = "",
                     !.codeEmail = "",
                     !.form = [@ EXCEPT !.otp = "", !.newPassword = ""],
                     !.toasts = <<"success">>,
                     !.loading = FALSE,
                     !.awaiting = 0]

\* the AuthPanel after the task in which call c took a step: a new
\* AuthPanel is mounted when the App shows the ChatPanel and comes back;
\* the handler awaiting c resumes when c settles, with the response data
\* or in its catch block
Continued(c, data) ==
    IF outcome'[c].kind = "reject" THEN Failed(panel)
    ELSE IF config[c].url = ForgotPath
    THEN OtpRequested(panel, data, config[c].data.email)
    ELSE IF config[c].url = ResetPath THEN PasswordReset(panel)
    ELSE Quiet(panel)

\* resumed records the url of the call whose handler the task resumed
Resume(c, data) ==
    IF View' = "ChatPanel" THEN InitPanel
    ELSE IF panel.awaiting # c \/ pc'[c] # "settled" THEN Quiet(panel)
    ELSE [Continued(c, data) EXCEPT !.resumed = config[c].url]

\* the continuation of AuthPanel.handleLoginOrRegister after loginUser
\* resolved with body b
LoginStore(b) ==
    [access_token |-> b.access_token,
     refresh_token |-> IF Truthy(b.refresh_token) THEN b.refresh_token ELSE Empty,
     role |-> IF Truthy(b.role) THEN b.role ELSE "user"]

\* what getCurrentUser resolves with (response.data?.user || null), as far
\* as loadCurrentUser reads it: me?.role
MeBodies == [role : Roles \cup {Null}]

\* the continuation of App.loadCurrentUser after getCurrentUser resolved
\* with me: if (me?.role) localStorage.setItem("role", me.role)
MeStore(s, me) == IF Truthy(me.role) THEN [s EXCEPT !.role = me.role] ELSE s

\* bodies the server can answer a successful call on url u with
Bodies(u) ==
    IF u = LoginPath THEN LoginBodies \cup EmptyLoginBodies
    ELSE IF u = ForgotPath THEN OtpBodies
    ELSE IF u = MePath THEN MeBodies
    ELSE {Cleared}

\* (response) => response: the in-flight transmission of c succeeds; the
\* caller's promise resolves, and a login caller stores the new session
ResponseOk(c, body) ==
    /\ pc[c] \in {"sent", "replayed"}
    /\ body \in Bodies(config[c].url)
    /\ delivered' = <<>>
    /\ IF Awaited(c, {RegisterPath, VerifyPath})
       THEN /\ StartCall(c, SecondCall(config[c].url), SecondData(c))
            /\ panel' = Quiet(panel)
            /\ UNCHANGED appToken
       ELSE /\ pc' = [pc EXCEPT ![c] = "settled"]
            /\ outcome' = [outcome EXCEPT ![c] = Resolved(nTx[c])]
            /\ store' = IF config[c].url = LoginPath THEN LoginStore(body)
                        ELSE IF config[c].url = MePath THEN MeStore(store, body)
                        ELSE store
            /\ appToken' = IF config[c].url = LoginPath
                           THEN onAuthSuccess(store') ELSE appToken
            /\ config' = [config EXCEPT ![c] = Release(@)]
            /\ panel' = Resume(c, body)
            /\ UNCHANGED <<error, renewal, newToken, nTx, nRefresh, nUnauth,
                           nHandled, overlap>>
    /\ wrapper' = wrapper

\* async (error) => {...}: the in-flight transmission of c fails with
\* status st (0: no response), up to the await of the renewal POST or to
\* the final Promise.reject
ResponseError(c, st) ==
    /\ pc[c] \in {"sent", "replayed"}
    /\ nHandled' = [nHandled EXCEPT ![c] = @ + 1]
    /\ error' = [error EXCEPT ![c] = ErrorOf(nTx[c], st)]
    /\ IF Eligible(st, config[c], store.refresh_token)
       THEN /\ config' = [config EXCEPT ![c].retry = TRUE]
            /\ pc' = [pc EXCEPT ![c] = "refreshing"]
            /\ renewal' = [renewal EXCEPT ![c] = "pending"]
            /\ nRefresh' = [nRefresh EXCEPT ![c] = @ + 1]
            /\ overlap' = IF \E d \in CallIds : pc[d] = "refreshing"
                          THEN overlap \cup {c}
                                 \cup {d \in CallIds : pc[d] = "refreshing"}
                          ELSE overlap
            /\ delivered' = <<>>
            /\ UNCHANGED <<store, outcome, nUnauth>>
       ELSE /\ store' = IF IsUnauthorized(st) THEN TerminatedStore(store)
                        ELSE store
            /\ nUnauth' = [nUnauth EXCEPT
                             ![c] = IF IsUnauthorized(st) THEN @ + 1 ELSE @]
            /\ delivered' = IF IsUnauthorized(st)
                            THEN Events(1, StoreAtDispatch(store)) ELSE <<>>
            /\ outcome' = [outcome EXCEPT ![c] = Rejected(error'[c])]
            /\ pc' = [pc EXCEPT ![c] = "settled"]
            /\ config' = [config EXCEPT ![c] = Release(@)]
            /\ UNCHANGED <<renewal, nRefresh, overlap>>
    /\ appToken' = AfterEvents(appToken, delivered')
    /\ panel' = Resume(c, Cleared)
    /\ UNCHANGED <<newToken, nTx>>
    /\ wrapper' = wrapper

\* the renewal POST of c resolves with body b: store the new token and
\* replay, or (no access_token in the body) fall through to the logout
\* branch; the handled error is the original 401
RefreshOk(c, b) ==
    /\ pc[c] = "refreshing"
    /\ newToken' = [newToken EXCEPT ![c] = b.access_token]
    /\ renewal' = [renewal EXCEPT
                     ![c] = IF Truthy(b.access_token) THEN "ok" ELSE "empty"]
    /\ IF ReplayAllowed(b.access_token)
       THEN /\ store' = StoreRenewed(store, b.access_token)
            /\ config' = [config EXCEPT
                            ![c] = Transmit(ReplayConfig(@, b.access_token))]
            /\ pc' = [pc EXCEPT ![c] = "replayed"]
            /\ nTx' = [nTx EXCEPT ![c] = @ + 1]
            /\ delivered' = <<>>
            /\ UNCHANGED <<outcome, nUnauth>>
       ELSE /\ store' = TerminatedStore(store)
            /\ nUnauth' = [nUnauth EXCEPT ![c] = @ + 1]
            /\ delivered' = Events(1, StoreAtDispatch(store))
            /\ outcome' = [outcome EXCEPT ![c] = Rejected(error[c])]
            /\ pc' = [pc EXCEPT ![c] = "settled"]
            /\ config' = [config EXCEPT ![c] = Release(@)]
            /\ UNCHANGED nTx
    /\ appToken' = AfterEvents(appToken, delivered')
    /\ panel' = Resume(c, Cleared)
    /\ UNCHANGED <<error, nRefresh, nHandled, overlap>>
    /\ wrapper' = wrapper

\* the renewal POST of c rejects with status st: catch (_) {} and the logout
\* branch.  Had the POST been made on an intercepted client, the interceptor
\* would first have handled the renewal's own failure (a refresh call: no
\* renewal, logout branch on 401, reject into the catch).
RefreshFail(c, st) ==
    /\ pc[c] = "refreshing"
    /\ renewal' = [renewal EXCEPT ![c] = "rejected"]
    /\ nHandled' = [nHandled EXCEPT
                      ![c] = IF Intercepted(RenewalClient) THEN @ + 1 ELSE @]
    /\ nUnauth' = [nUnauth EXCEPT
                     ![c] = IF Intercepted(RenewalClient) /\ IsUnauthorized(st)
                            THEN @ + 2 ELSE @ + 1]
    /\ store' = TerminatedStore(store)
    /\ delivered' = Events(nUnauth'[c] - nUnauth[c], StoreAtDispatch(store))
    /\ appToken' = AfterEvents(appToken, delivered')
    /\ outcome' = [outcome EXCEPT ![c] = Rejected(error[c])]
    /\ pc' = [pc EXCEPT ![c] = "settled"]
    /\ config' = [config EXCEPT ![c] = Release(@)]
    /\ panel' = Resume(c, Cleared)
    /\ UNCHANGED <<error, newToken, nTx, nRefresh, overlap>>
    /\ wrapper' = wrapper

(* ---------------------- other writers of the store --------------------- *)

\* slip: the logout dispatches auth:unauthorized itself
LogoutEventsUnauthorized == <<Cleared>>

\* events dispatched by a logout: none
LogoutEvents == <<>>

\* App.handleLogout, the onLogout of the ChatPanel (rendered while `token`
\* is set): the three removeItem calls, then setToken(null)
handleLogout ==
    /\ Truthy(appToken)
    /\ store' = Cleared
    /\ delivered' = LogoutEvents
    /\ appToken' = Null
    /\ UNCHANGED <<callVars, panel>>
    /\ wrapper' = wrapper

(* ---------------------- specification ---------------------------------- *)

Next ==
    \/ \E c \in CallIds, u \in Urls : Request(c, u)
    \/ \E c \in CallIds, body \in LoginBodies \cup {Cleared} : ResponseOk(c, body)
    \/ \E c \in CallIds, st \in ErrStatuses : ResponseError(c, st)
    \/ \E c \in CallIds, b \in RefreshBodies : RefreshOk(c, b)
    \/ \E c \in CallIds, st \in ErrStatuses : RefreshFail(c, st)
    \/ handleLogout

Spec == Init /\ [][Next]_vars

\* every network call eventually responds or times out (axios timeout:
\* 120000 on both clients)
Respond(c) ==
    \/ \E body \in LoginBodies \cup {Cleared} : ResponseOk(c, body)
    \/ \E st \in ErrStatuses : ResponseError(c, st)
    \/ \E b \in RefreshBodies : RefreshOk(c, b)
    \/ \E st \in ErrStatuses : RefreshFail(c, st)

FairSpec == Spec /\ \A c \in CallIds : WF_vars(Respond(c))

(* ---------------------- AuthPanel and ChatPanel ------------------------ *)

\* what the user can type into the fields of the AuthPanel forms
FieldValues ==
    [email |-> {"", " ", "u@x.com", "v@x.com"},
     otp |-> {"", "123456"},
     newPassword |-> {"", "pw"}]

Passwords == {"", "pw"}
Usernames == {"", "u"}

\* slip: the field is tested untrimmed
TrimNothing(s) == s

\* String.prototype.trim on the values the user can type
Trim(s) == IF s = " " THEN "" ELSE s

\* the inputs the AuthPanel renders for its mode and step
Fields ==
    IF panel.mode = "forgot" /\ panel.step = "verify"
    THEN {"email", "otp", "newPassword"}
    ELSE {"email"}

\* updateField(key, value): onChange of an input
updateField(key, value) ==
    /\ View = "AuthPanel"
    /\ key \in Fields
    /\ value \in FieldValues[key] \ {panel.form[key]}
    /\ panel' = [Quiet(panel) EXCEPT !.form[key] = value]
    /\ delivered' = <<>>
    /\ UNCHANGED <<store, callVars, appToken>>
    /\ wrapper' = wrapper

\* the Sign in / Register / Forgot password? buttons:
\* setMode(m); setStep("request")
setMode(m) ==
    /\ View = "AuthPanel"
    /\ panel' = [Quiet(panel) EXCEPT !.mode = m, !.step = "request"]
    /\ delivered' = <<>>
    /\ UNCHANGED <<store, callVars, appToken>>
    /\ wrapper' = wrapper

\* an AuthPanel handler that throws before its first await: the catch adds
\* the error toast and finally sets loading back to false in the same task
Thrown(handler) ==
    /\ panel' = [Quiet(panel) EXCEPT !.ran = handler, !.toasts = <<"error">>,
                                     !.loading = FALSE]
    /\ UNCHANGED <<store, callVars>>

\* the email and otp in the body an AuthPanel handler posts to url u (the
\* bodies of the login and register calls are not part of the model)
Payload(u) ==
    IF u = VerifyPath
    THEN [email |-> Trim(panel.form.email), otp |-> Trim(panel.form.otp)]
    ELSE IF u = ForgotPath
    THEN [email |-> Trim(panel.form.email), otp |-> ""]
    ELSE NoData

\* an AuthPanel handler that reaches its first await: call c on url u
Awaiting(handler, c, u) ==
    /\ FreeSlot(c)
    /\ StartCall(c, u, Payload(u))
    /\ panel' = [Quiet(panel) EXCEPT !.ran = handler, !.loading = TRUE,
                                     !.awaiting = c]

\* AuthPanel.handleLoginOrRegister, onSubmit of the login / register form
\* (its button is disabled while loading), up to its first await
handleLoginOrRegister(c, username, password) ==
    /\ View = "AuthPanel"
    /\ panel.mode \in {"login", "register"}
    /\ ~panel.loading
    /\ IF Trim(password) = "" THEN Thrown("handleLoginOrRegister")
       ELSE IF panel.mode = "register"
       THEN IF Trim(username) = "" \/ Trim(panel.form.email) = ""
            THEN Thrown("handleLoginOrRegister")
            ELSE Awaiting("handleLoginOrRegister", c, RegisterPath)
       ELSE Awaiting("handleLoginOrRegister", c, LoginPath)
    /\ delivered' = <<>>
    /\ UNCHANGED appToken
    /\ wrapper' = wrapper

\* AuthPanel.handleOtpRequest, onSubmit of the request form, up to its await
handleOtpRequest(c) ==
    /\ View = "AuthPanel"
    /\ panel.mode = "forgot" /\ panel.step = "request"
    /\ ~panel.loading
    /\ IF Trim(panel.form.email) = "" THEN Thrown("handleOtpRequest")
       ELSE Awaiting("handleOtpRequest", c, ForgotPath)
    /\ delivered' = <<>>
    /\ UNCHANGED appToken
    /\ wrapper' = wrapper

\* AuthPanel.handleOtpVerifyAndReset, onSubmit of the verify form, up to its
\* first await
handleOtpVerifyAndReset(c) ==
    /\ View = "AuthPanel"
    /\ panel.mode = "forgot" /\ panel.step = "verify"
    /\ ~panel.loading
    /\ IF \/ Trim(panel.form.email) = ""
          \/ Trim(panel.form.otp) = ""
          \/ Trim(panel.form.newPassword) = ""
       THEN Thrown("handleOtpVerifyAndReset")
       ELSE Awaiting("handleOtpVerifyAndReset", c, VerifyPath)
    /\ delivered' = <<>>
    /\ UNCHANGED appToken
    /\ wrapper' = wrapper

\* ChatPanel: the user sends a question (askQuestion posts it through api)
askQuestion(c) ==
    /\ View = "ChatPanel"
    /\ FreeSlot(c)
    /\ StartCall(c, ChatPath, NoData)
    /\ delivered' = <<>>
    /\ UNCHANGED <<appToken, panel>>
    /\ wrapper' = wrapper

PanelNext ==
    \/ \E c \in CallIds : askQuestion(c)
    \/ handleLogout
    \/ \E key \in {"email", "otp", "newPassword"}, value \in {"", " ", "u@x.com", "123456", "pw"} :
          updateField(key, value)
    \/ \E m \in {"login", "register", "forgot"} : setMode(m)
    \/ \E c \in CallIds, username \in Usernames, password \in Passwords :
          handleLoginOrRegister(c, username, password)
    \/ \E c \in CallIds : handleOtpRequest(c)
    \/ \E c \in CallIds : handleOtpVerifyAndReset(c)
    \/ \E c \in CallIds, body \in LoginBodies \cup OtpBodies \cup {Cleared} :
          ResponseOk(c, body)
    \/ \E c \in CallIds, st \in ErrStatuses : ResponseError(c, st)
    \/ \E c \in CallIds, b \in RefreshBodies : RefreshOk(c, b)
    \/ \E c \in CallIds, st \in ErrStatuses : RefreshFail(c, st)

\* the App as the user drives it: the ChatPanel while a token is set, the
\* AuthPanel otherwise
PanelSpec == Init /\ [][PanelNext]_vars

(* --------- the helpers and the older App and AuthPanel ------------------ *)

\* logoutUser of the auth module with the /auth/verify-otp wrapper: the
\* three removeItem calls
logoutUser ==
    /\ store' = Cleared
    /\ delivered' = <<>>
    /\ UNCHANGED <<callVars, appToken, panel>>
    /\ wrapper' = wrapper

\* what the older logout code leaves of localStorage:
\* removeItem("access_token") and removeItem("role") only
LegacyCleared(s) == [s EXCEPT !.access_token = Null, !.role = Null]

\* logoutUser of the auth module with the /auth/forgot-password/request-otp
\* wrapper
logoutUserLegacy ==
    /\ store' = LegacyCleared(store)
    /\ delivered' = <<>>
    /\ UNCHANGED <<callVars, appToken, panel>>
    /\ wrapper' = wrapper

\* handleLogout of the older App: the two removeItem calls, setToken(null)
handleLogoutLegacy ==
    /\ Truthy(appToken)
    /\ store' = LegacyCleared(store)
    /\ delivered' = <<>>
    /\ appToken' = Null
    /\ UNCHANGED <<callVars, panel>>
    /\ wrapper' = wrapper

\* the continuation of the older AuthPanel.submitAuth after loginUser
\* resolved with body b: setItem("access_token"), setItem("role")
LegacyLoginStore(s, b) ==
    [s EXCEPT !.access_token = b.access_token,
              !.role = IF Truthy(b.role) THEN b.role ELSE "user"]

\* the login call c was made by the older AuthPanel.submitAuth and succeeds
\* with body b (the request itself is the same POST /auth/login through api)
submitAuth(c, b) ==
    /\ pc[c] \in {"sent", "replayed"}
    /\ config[c].url = LoginPath
    /\ pc' = [pc EXCEPT ![c] = "settled"]
    /\ outcome' = [outcome EXCEPT ![c] = Resolved(nTx[c])]
    /\ store' = LegacyLoginStore(store, b)
    /\ appToken' = onAuthSuccess(store')
    /\ config' = [config EXCEPT ![c] = Release(@)]
    /\ delivered' = <<>>
    /\ UNCHANGED <<error, renewal, newToken, nTx, nRefresh, nUnauth, nHandled,
                   overlap, panel>>
    /\ wrapper' = wrapper

AllNext ==
    \/ Next
    \/ logoutUser
    \/ logoutUserLegacy
    \/ handleLogoutLegacy
    \/ \E c \in CallIds, b \in LoginBodies : submitAuth(c, b)

\* the current App together with the exported helpers and the older App
\* and AuthPanel, all over the same localStorage
AllSpec == Init /\ [][AllNext]_vars

(* ---------------------- claims ----------------------------------------- *)

\* C1: for every logical call, whatever the server answers (a 401 on the
\* replayed request included), at most one POST to /auth/refresh is made.
C1_AtMostOneRenewal == \A c \in CallIds : nRefresh[c] <= 1

\* a call was renewed, replayed, and the replay came back 401
C1_Witness ==
    \E c \in CallIds :
        /\ nRefresh[c] = 1
        /\ renewal[c] = "ok"
        /\ outcome[c] = [kind |-> "reject", attempt |-> 2, status |-> 401]

\* C2: when the renewal of a call succeeds with access token T, T is written
\* to the store, the request is resubmitted once (second transmission)
\* carrying Bearer T, and the caller gets the outcome of that replay; a
\* replay that succeeds emits no event and removes nothing from the store.
C2_RenewReplay ==
    [][\A c \in CallIds :
        /\ (pc[c] = "refreshing" /\ renewal'[c] = "ok") =>
              /\ store'.access_token = newToken'[c]
              /\ nTx[c] = 1 /\ nTx'[c] = 2
              /\ config'[c].Authorization = <<"Bearer", newToken'[c]>>
              /\ pc'[c] = "replayed"
        /\ (renewal'[c] = "ok" /\ pc'[c] # "refreshing") => nTx'[c] = 2
        /\ (pc[c] = "replayed" /\ pc'[c] = "settled") =>
              /\ outcome'[c].attempt = 2
              /\ outcome'[c].kind \in {"resolve", "reject"}
              /\ outcome'[c].kind = "reject" =>
                    /\ nHandled'[c] = nHandled[c] + 1
                    /\ outcome'[c].status = error'[c].status
                    /\ error'[c].attempt = 2
              /\ outcome'[c].kind = "resolve" =>
                    /\ nUnauth' = nUnauth
                    /\ \A k \in {"access_token", "refresh_token", "role"} :
                          store[k] # Null => store'[k] # Null
      ]_vars

\* a renewed call whose replay succeeded, without any event
C2_Witness ==
    \E c \in CallIds :
        /\ renewal[c] = "ok"
        /\ newToken[c] = "a2"
        /\ outcome[c] = [kind |-> "resolve", attempt |-> 2, status |-> 200]
        /\ nUnauth[c] = 0

\* C3: if the renewal call of a logical call is rejected, that call sees no
\* second renewal and no replay, the interceptor has run once only (for the
\* original failure, not for the renewal's), the event was dispatched once,
\* and the caller is rejected with the original request's 401 error.
C3_RenewalRejected ==
    \A c \in CallIds :
        renewal[c] = "rejected" =>
            /\ pc[c] = "settled"
            /\ nRefresh[c] = 1
            /\ nTx[c] = 1
            /\ nHandled[c] = 1
            /\ nUnauth[c] = 1
            /\ outcome[c] = [kind |-> "reject", attempt |-> 1, status |-> 401]

\* a call whose renewal was rejected, and the store it left behind
C3_Witness ==
    \E c \in CallIds : renewal[c] = "rejected" /\ store = Cleared

\* C4: a 401 handled while no refresh_token is stored, or for a request
\* already retried, terminates the session without a renewal call: after
\* the handler the three store fields are absent and the event has been
\* dispatched exactly once for that call.
C4_IneligibleTerminates ==
    [][\A c \in CallIds :
        (/\ nHandled'[c] = nHandled[c] + 1
         /\ error'[c].status = 401
         /\ (store.refresh_token \in {Null, Empty} \/ config[c].retry)) =>
            /\ store'.access_token = Null
            /\ store'.refresh_token = Null
            /\ store'.role = Null
            /\ nRefresh' = nRefresh
            /\ renewal' = renewal
            /\ nUnauth'[c] = 1
            /\ pc'[c] = "settled"
      ]_vars

\* one call terminated for want of a refresh_token, another because its
\* replay came back 401
C4_Witness ==
    \E c, d \in CallIds :
        /\ outcome[c] = [kind |-> "reject", attempt |-> 1, status |-> 401]
        /\ nRefresh[c] = 0 /\ nUnauth[c] = 1
        /\ outcome[d] = [kind |-> "reject", attempt |-> 2, status |-> 401]
        /\ nRefresh[d] = 1 /\ nUnauth[d] = 1
        /\ store = Cleared

\* C5: a renewal call is issued for a call exactly when the interceptor
\* handles a failure of it with status 401, _retry false, a URL that does
\* not contain the renewal path, and a (non-empty) refresh_token stored.
C5_RenewalIff ==
    [][\A c \in CallIds :
        /\ nRefresh'[c] \in {nRefresh[c], nRefresh[c] + 1}
        /\ (nRefresh'[c] = nRefresh[c] + 1) <=>
              /\ nHandled'[c] = nHandled[c] + 1
              /\ error'[c].status = 401
              /\ config[c].retry = FALSE
              /\ \A i \in 1..Len(config[c].url) - 1 :
                    <<config[c].url[i], config[c].url[i + 1]>>
                        # <<"auth", "refresh">>
              /\ store.refresh_token \notin {Null, Empty}
      ]_vars

\* a renewal is in flight for one call, issued while another call, which
\* got its 401 with no usable refresh_token stored, had settled without one
C5_Witness ==
    \E c, d \in CallIds :
        /\ pc[c] = "refreshing" /\ nRefresh[c] = 1
        /\ outcome[d] = [kind |-> "reject", attempt |-> 1, status |-> 401]
        /\ nRefresh[d] = 0
        /\ d < c

\* C6: every logical call that was started eventually settles, given that
\* each network call eventually responds, and its request is transmitted at
\* most twice.
C6_Settles ==
    /\ [](\A c \in CallIds : nTx[c] <= 2)
    /\ \A c \in CallIds : (pc[c] # "idle") ~> (pc[c] = "settled")

\* every call has settled, one of them after a 401 on its replay
C6_Witness ==
    /\ \A c \in CallIds : pc[c] = "settled"
    /\ \E c \in CallIds : nTx[c] = 2 /\ outcome[c].status = 401

\* C7: _retry is false on a new request, becomes true only in the step that
\* issues the renewal call (so it is true while the renewal is in flight),
\* and is never reset, the replay included.
C7_RetryFlag ==
    /\ [](\A c \in CallIds :
            /\ (nRefresh[c] = 0 => ~config[c].retry)
            /\ (pc[c] \in {"refreshing", "replayed"} => config[c].retry))
    /\ [][\A c \in CallIds :
            /\ config[c].retry => config'[c].retry
            /\ (~config[c].retry /\ config'[c].retry) =>
                  nRefresh'[c] = nRefresh[c] + 1 /\ pc'[c] = "refreshing"
            /\ nRefresh'[c] = nRefresh[c] + 1 => config'[c].retry
       ]_vars

\* a replay in flight, and one that has settled, both still marked
C7_Witness ==
    \E c, d \in CallIds :
        /\ pc[c] = "replayed" /\ config[c].retry
        /\ pc[d] = "settled" /\ nTx[d] = 2 /\ config[d].retry

\* C8: a failure whose status is not 401 (no response, 403) causes no
\* renewal call, no store change and no event, and the caller is rejected
\* with that very error.
C8_OtherErrorsPassThrough ==
    [][\A c \in CallIds :
        (nHandled'[c] = nHandled[c] + 1 /\ error'[c].status # 401) =>
            /\ store' = store
            /\ nRefresh' = nRefresh
            /\ nUnauth' = nUnauth
            /\ pc'[c] = "settled"
            /\ outcome'[c].kind = "reject"
            /\ outcome'[c].attempt = nTx[c]
            /\ outcome'[c].status = error'[c].status
      ]_vars

\* a 403 and a network failure were passed through while a full session
\* was stored
C8_Witness ==
    \E c, d \in CallIds :
        /\ outcome[c] = [kind |-> "reject", attempt |-> 1, status |-> 403]
        /\ outcome[d] = [kind |-> "reject", attempt |-> 1, status |-> 0]
        /\ store.access_token # Null /\ store.refresh_token = "r1"

\* C9: every transmission through `api`, replays included, carries
\* Authorization = Bearer <access_token stored when it is stamped>, and no
\* Authorization at all when no access_token is stored then.
C9_BearerStamp ==
    [][\A c \in CallIds :
        nTx'[c] = nTx[c] + 1 =>
            /\ store'.access_token \notin {Null, Empty} =>
                  config'[c].Authorization = <<"Bearer", store'.access_token>>
            /\ store'.access_token = Null => config'[c].Authorization = <<>>
      ]_vars

\* a replay carrying the renewed token next to a request sent bare
C9_Witness ==
    \E c, d \in CallIds :
        /\ pc[c] = "replayed"
        /\ config[c].Authorization = <<"Bearer", "a2">>
        /\ pc[d] = "sent"
        /\ config[d].Authorization = <<>>

\* C10: the second transmission of a call happens only in the step in which
\* its renewal resolved with a token, after that token was stored; never
\* while the renewal is pending and never after it failed.
C10_ReplayAfterRenewal ==
    /\ [](\A c \in CallIds :
            /\ nTx[c] = 2 => renewal[c] = "ok"
            /\ renewal[c] \in {"pending", "rejected", "empty"} => nTx[c] = 1)
    /\ [][\A c \in CallIds :
            nTx'[c] > nTx[c] /\ nTx[c] >= 1 =>
                /\ pc[c] = "refreshing"
                /\ renewal'[c] = "ok"
                /\ newToken'[c] \in AccessTokens
                /\ store'.access_token = newToken'[c]
       ]_vars

\* one call replayed after its renewal, another whose renewal failed and
\* was never replayed
C10_Witness ==
    \E c, d \in CallIds :
        /\ nTx[c] = 2 /\ renewal[c] = "ok"
        /\ renewal[d] \in {"rejected", "empty"} /\ pc[d] = "settled"

\* C11: there is no single-flight guard: a call whose first 401 is handled
\* while a refresh_token is stored issues its own renewal even though the
\* renewal of another call is still in flight, so two renewal calls can be
\* in flight at the same time.
C11_NoSingleFlight ==
    [][\A c, d \in CallIds :
        (/\ c # d
         /\ pc[d] = "refreshing"
         /\ nHandled'[c] = nHandled[c] + 1
         /\ error'[c].status = 401
         /\ ~config[c].retry
         /\ ~Includes(config[c].url, RefreshPath)
         /\ Truthy(store.refresh_token))
        => /\ pc'[c] = "refreshing"
           /\ pc'[d] = "refreshing"
           /\ renewal'[c] = "pending"
           /\ renewal'[d] = "pending"
           /\ nRefresh'[c] = nRefresh[c] + 1]_vars

C11_Witness ==
    \E c, d \in CallIds :
        /\ c # d
        /\ pc[c] = "refreshing" /\ pc[d] = "refreshing"
        /\ renewal[c] = "pending" /\ renewal[d] = "pending"
        /\ nRefresh[c] = 1 /\ nRefresh[d] = 1
        /\ overlap = {c, d}

\* C12: when two renewals overlap and both succeed, each writes the
\* access_token it was given when its own response arrives, over whatever
\* is stored: the write of the renewal that completes first is replaced by
\* the write of the one that completes later (last writer wins), and no
\* other field of the store is touched.
C12_LastWriterWins ==
    [][\A c, d \in CallIds :
        (/\ c # d
         /\ c \in overlap /\ d \in overlap
         /\ renewal[d] = "ok"
         /\ pc[c] = "refreshing"
         /\ renewal'[c] = "ok")
        => /\ store'.access_token = newToken'[c]
           /\ store'.refresh_token = store.refresh_token
           /\ store'.role = store.role]_vars

C12_Witness ==
    \E c, d \in CallIds :
        /\ c # d
        /\ overlap = {c, d}
        /\ renewal[c] = "ok" /\ renewal[d] = "ok"
        /\ pc[c] = "replayed" /\ pc[d] = "replayed"
        /\ newToken[c] # newToken[d]
        /\ config[d].Authorization = Bearer(newToken[d])
        /\ config[c].Authorization = Bearer(newToken[c])
        /\ store.access_token = newToken[c]

\* C13: exactly one session is live in the store: a renewal writes its
\* access_token only while the session it was started under is still the
\* stored one (the refresh_token it sent is still in the store), so the
\* store never holds the access_token of a session that has ended next to
\* absent or foreign refresh_token and role.
C13_OneLiveSession ==
    [][\A c \in CallIds :
        (pc[c] = "refreshing" /\ renewal'[c] = "ok")
        => /\ Truthy(store.refresh_token)
           /\ store'.refresh_token # Null
           /\ store'.role # Null]_vars

\* C14: after any logout operation (a logoutUser helper or an App logout
\* handler: the steps that touch no call) completes, access_token,
\* refresh_token and role are all absent from the store.
C14_LogoutClearsAll ==
    [][(UNCHANGED callVars /\ (store' # store \/ appToken' # appToken))
        => store' = Cleared]_vars

\* C15: in the step in which a login call succeeds, access_token,
\* refresh_token and role have all been written to the store (each key is
\* present, access_token and role with a value) when onAuthSuccess hands
\* the App its token, the token is the stored access_token, and a request
\* transmitted from then on carries Bearer followed by the stored token.
C15_LoginWritesSession ==
    [][\A c \in CallIds :
        /\ (/\ pc[c] \in {"sent", "replayed"}
            /\ config[c].url = LoginPath
            /\ outcome'[c].kind = "resolve")
           => /\ Truthy(store'.access_token)
              /\ store'.refresh_token # Null
              /\ Truthy(store'.role)
              /\ appToken' = store'.access_token
        /\ (nTx'[c] = nTx[c] + 1 /\ Truthy(store'.access_token))
           => config'[c].Authorization = Bearer(store'.access_token)]_vars

\* C16: session termination is ordered: in the task that dispatches
\* auth:unauthorized the three fields were removed before the dispatch (a
\* handler reading localStorage during delivery finds all three absent),
\* the App's handler has run by the end of the task (its token is null),
\* and the caller's promise, pending until then, is rejected with the 401
\* at the end of that same task.
C16_TerminationOrder ==
    [][Len(delivered') > 0
        => /\ \A i \in 1..Len(delivered') : delivered'[i] = Cleared
           /\ store' = Cleared
           /\ appToken' = Null
           /\ \E c \in CallIds :
                /\ pc[c] \in {"sent", "replayed", "refreshing"}
                /\ outcome[c] = NoOutcome
                /\ pc'[c] = "settled"
                /\ outcome'[c].kind = "reject"
                /\ outcome'[c].status = 401
                /\ nUnauth'[c] = nUnauth[c] + Len(delivered')]_vars

C16_Witness ==
    /\ delivered = <<Cleared>>
    /\ store = Cleared
    /\ appToken = Null
    /\ \E c \in CallIds :
         /\ pc[c] = "settled"
         /\ outcome[c] = [kind |-> "reject", attempt |-> 1, status |-> 401]
         /\ nUnauth[c] = 1
         /\ renewal[c] = "none"

\* C17: auth:unauthorized is dispatched only by the response interceptor as
\* part of a session termination (a call whose 401 is being handled, or
\* whose renewal just ended without a token, is rejected with its 401 and
\* the store is cleared in the same task); a logout, a successful login and
\* every other step dispatch nothing.
C17_SolePublisher ==
    [][/\ Len(delivered') > 0
          => \E c \in CallIds :
                /\ \/ pc[c] \in {"sent", "replayed"} /\ nHandled'[c] = nHandled[c] + 1
                   \/ pc[c] = "refreshing" /\ renewal'[c] \in {"empty", "rejected"}
                /\ error'[c].status = 401
                /\ outcome'[c] = Rejected(error'[c])
                /\ nUnauth'[c] > nUnauth[c]
                /\ store' = Cleared
       /\ (\A c \in CallIds : nUnauth'[c] = nUnauth[c]) => delivered' = <<>>
       /\ UNCHANGED callVars => delivered' = <<>>
       /\ (\E c \in CallIds : outcome'[c].kind = "resolve" /\ outcome[c] = NoOutcome)
          => delivered' = <<>>]_vars

C17_Witness ==
    /\ store = Cleared
    /\ appToken = Null
    /\ delivered = <<>>
    /\ \A c \in CallIds : nUnauth[c] = 0 /\ nHandled[c] = 0
    /\ \E c \in CallIds :
         /\ pc[c] = "sent"
         /\ config[c].Authorization = Bearer("a1")
         /\ \A d \in CallIds \ {c} : pc[d] = "idle"

\* C18: whenever auth:unauthorized is dispatched the App's token is null at
\* the end of that task, so the login view replaces the ChatPanel; and the
\* ChatPanel is shown again only by a step in which a login call succeeds.
C18_UnauthorizedShowsLogin ==
    [][/\ Len(delivered') > 0 => appToken' = Null /\ View' = "AuthPanel"
       /\ (View = "AuthPanel" /\ View' = "ChatPanel")
          => \E c \in CallIds :
                /\ pc[c] \in {"sent", "replayed"}
                /\ config[c].url = LoginPath
                /\ outcome'[c].kind = "resolve"
                /\ appToken' = store'.access_token]_vars

C18_Witness ==
    /\ View = "AuthPanel"
    /\ Len(delivered) = 1
    /\ \A c \in CallIds : renewal[c] = "none" /\ outcome[c].kind # "resolve"
    /\ \E c, d \in CallIds :
         /\ pc[c] = "sent"
         /\ config[c].Authorization = Bearer("a1")
         /\ pc[d] = "settled"
         /\ nUnauth[d] = 1

\* C20: the OTP flow moves from the request step to the verify step only in
\* the step in which the awaited /auth/forgot-password call succeeds; when
\* that call is rejected the step stays at request, an error toast is added
\* and loading ends; when the request form is submitted with an empty
\* (blank) email no call is made, the step stays at request and an error
\* toast is added.
C20_RequestCode ==
    [][/\ (panel.step = "request" /\ panel'.step = "verify")
          => \E c \in CallIds :
                /\ Awaited(c, {ForgotPath})
                /\ pc'[c] = "settled"
                /\ outcome'[c].kind = "resolve"
       /\ \A c \in CallIds :
            (Awaited(c, {ForgotPath}) /\ pc'[c] = "settled"
               /\ outcome'[c].kind = "reject")
            => /\ panel.step = "request"
               /\ panel'.step = "request"
               /\ panel'.toasts = <<"error">>
               /\ ~panel'.loading
       /\ (panel'.ran = "handleOtpRequest" /\ panel.form.email \in {"", " "})
          => /\ panel'.step = "request"
             /\ panel'.toasts = <<"error">>
             /\ ~panel'.loading
             /\ UNCHANGED callVars]_vars

C20_Witness ==
    /\ View = "AuthPanel"
    /\ panel.mode = "forgot"
    /\ panel.step = "request"
    /\ panel.form.email = "u@x.com"
    /\ panel.toasts = <<"error">>
    /\ panel.ran = ""
    /\ ~panel.loading
    /\ \E c \in CallIds :
         /\ pc[c] = "settled"
         /\ outcome[c] = [kind |-> "reject", attempt |-> 1, status |-> 403]

\* C19: no step of an OTP-flow call (POST /auth/forgot-password,
\* /auth/verify-otp or /auth/reset-password through api), whether the
\* server answers it with success or rejects it with any status, changes
\* access_token, refresh_token or role in the store.
C19_OtpLeavesStore ==
    [][\A c \in CallIds :
        (/\ pc[c] \in {"sent", "refreshing", "replayed"}
         /\ config[c].url \in {ForgotPath, VerifyPath, ResetPath}
         /\ <<pc[c], config[c], nTx[c]>> # <<pc'[c], config'[c], nTx'[c]>>)
        => store' = store]_vars

\* C21: a reset-password call is issued only in the task in which the
\* verify-otp call of the same handler resolved successfully, and it
\* carries the email and otp that verify-otp call carried; when the
\* verify-otp call is rejected no reset-password call is issued and the
\* panel stays at step verify.
C21_ResetAfterVerify ==
    [][\A c \in CallIds :
          /\ (config'[c].url = ResetPath /\ config[c].url # ResetPath)
                => /\ config[c].url = VerifyPath
                   /\ pc[c] \in {"sent", "replayed"}
                   /\ pc'[c] = "sent"
                   /\ nHandled'[c] = 0
                   /\ config'[c].data = config[c].data
          /\ (/\ config[c].url = VerifyPath
              /\ panel.awaiting = c
              /\ pc'[c] = "settled"
              /\ outcome'[c].kind = "reject"
              /\ View' = "AuthPanel")
                => /\ \A d \in CallIds : config'[d].url # ResetPath
                   /\ panel'.step = panel.step
                   /\ panel'.mode = panel.mode]_vars

\* a reset-password call is in flight for an email and otp the user has
\* since erased from the form
C21_Witness ==
    \E c \in CallIds :
        /\ config[c].url = ResetPath
        /\ pc[c] = "sent"
        /\ config[c].data.email = "u@x.com"
        /\ config[c].data.otp = "123456"
        /\ panel.form.email = ""
        /\ panel.form.otp = ""

\* C22: when the reset-password call of the awaiting handler resolves, the
\* entered otp, the new password and the dev-mode code are cleared, the
\* step is request again and the mode is login.
C22_ResetCompletes ==
    [][\A c \in CallIds :
          (/\ config[c].url = ResetPath
           /\ panel.awaiting = c
           /\ pc'[c] = "settled"
           /\ outcome'[c].kind = "resolve")
             => /\ panel'.form.otp = ""
                /\ panel'.form.newPassword = ""
                /\ panel'.devOtp = ""
                /\ panel'.step = "request"
                /\ panel'.mode = "login"]_vars

\* the handler has just resumed from a resolved reset-password call
C22_Witness ==
    /\ panel.resumed = ResetPath
    /\ panel.toasts = <<"success">>
    /\ panel.mode = "login"
    /\ panel.form.email = "u@x.com"

\* C23: when the reset-password call of the awaiting handler is rejected,
\* the mode, the step, the entered fields and the dev-mode code are left
\* as they are and the form can be submitted again (loading is false).
C23_ResetRejectedStays ==
    [][\A c \in CallIds :
          (/\ config[c].url = ResetPath
           /\ panel.awaiting = c
           /\ pc'[c] = "settled"
           /\ outcome'[c].kind = "reject")
             => /\ panel'.step = panel.step
                /\ panel'.mode = panel.mode
                /\ panel'.form = panel.form
                /\ panel'.devOtp = panel.devOtp
                /\ ~panel'.loading
                /\ panel'.awaiting = 0]_vars

\* the handler has just resumed in its catch block from a rejected
\* reset-password call, at step verify with the otp still entered
C23_Witness ==
    /\ panel.resumed = ResetPath
    /\ panel.toasts = <<"error">>
    /\ panel.mode = "forgot"
    /\ panel.step = "verify"
    /\ panel.form.otp = "123456"
    /\ ~panel.loading

\* C24: the step goes from request to verify only when the awaited
\* forgot-password call resolves, from verify back to request only when the
\* awaited reset-password call resolves or the user presses Sign in /
\* Register / Forgot password, and no reset-password call is issued while
\* the step is request.  (The panel is the same mounted AuthPanel before
\* and after the step.)
C24_StrictlyForward ==
    [][(View = "AuthPanel" /\ View' = "AuthPanel")
          => /\ (panel.step = "request" /\ panel'.step = "verify")
                   => panel'.resumed = ForgotPath
             /\ (panel.step = "verify" /\ panel'.step = "request")
                   => \/ panel'.resumed = ResetPath
                      \/ panel' = [Quiet(panel) EXCEPT !.mode = panel'.mode,
                                                       !.step = "request"]
             /\ \A c \in CallIds :
                   (config'[c].url = ResetPath /\ config[c].url # ResetPath)
                      => panel.step # "request"]_vars

\* C25: when the user leaves the verify step of the forgot flow by
\* pressing Sign in, Register or Forgot password, the entered otp and the
\* dev-mode code are no longer held.
C25_AbandonDiscards ==
    [][(/\ View = "AuthPanel" /\ View' = "AuthPanel"
        /\ panel.mode = "forgot" /\ panel.step = "verify"
        /\ panel'.step = "request"
        /\ panel'.resumed # ResetPath)
          => /\ panel'.form.otp = ""
             /\ panel'.devOtp = ""]_vars

(* ---------------------- the forgot-password flow alone ----------------- *)

\* the AuthPanel of a logged-out App
OtpInit == Init /\ store = Cleared

\* the user in the forgot-password flow: typing, the restart buttons, the
\* two submit handlers and the responses to their calls
OtpNext ==
    \/ \E key \in {"email", "otp", "newPassword"},
          value \in {"", "u@x.com", "v@x.com", "123456", "pw"} :
          updateField(key, value)
    \/ \E m \in {"login", "forgot"} : setMode(m)
    \/ \E c \in CallIds : handleOtpRequest(c)
    \/ \E c \in CallIds : handleOtpVerifyAndReset(c)
    \/ \E c \in CallIds, body \in OtpBodies \cup {Cleared} : ResponseOk(c, body)
    \/ \E c \in CallIds, st \in ErrStatuses : ResponseError(c, st)

OtpSpec == OtpInit /\ [][OtpNext]_vars

(* ---------------------- empty tokens ----------------------------------- *)

TokenUrls == {ChatPath, LoginPath}

\* the interceptors under a server whose login responses may carry an
\* empty access_token or no refresh_token
TokenNext ==
    \/ \E c \in CallIds, u \in TokenUrls : Request(c, u)
    \/ \E c \in CallIds,
          body \in {b \in LoginBodies : b.access_token = "a1" /\ b.role = "user"}
                     \cup EmptyLoginBodies \cup {Cleared} :
          ResponseOk(c, body)
    \/ \E c \in CallIds, st \in ErrStatuses : ResponseError(c, st)
    \/ \E c \in CallIds, b \in RefreshBodies : RefreshOk(c, b)
    \/ \E c \in CallIds, st \in ErrStatuses : RefreshFail(c, st)
    \/ handleLogout

TokenSpec == Init /\ [][TokenNext]_vars

(* ---------------------- App.loadCurrentUser ---------------------------- *)

\* the effect on [token] has run after the first render: with a token,
\* loadCurrentUser awaits getCurrentUser(), a GET of /auth/me made through
\* api as call 1
MeCall(s, c) == c = 1 /\ Truthy(s.access_token)

AppInit ==
    /\ store \in InitStores
    /\ pc = [c \in CallIds |-> IF MeCall(store, c) THEN "sent" ELSE "idle"]
    /\ config = [c \in CallIds |->
                   IF MeCall(store, c)
                   THEN [NewConfig EXCEPT
                           !.url = MePath,
                           !.Authorization =
                              RequestInterceptor(@, store.access_token)]
                   ELSE NewConfig]
    /\ nTx = [c \in CallIds |-> IF MeCall(store, c) THEN 1 ELSE 0]
    /\ error = [c \in CallIds |-> NoError]
    /\ outcome = [c \in CallIds |-> NoOutcome]
    /\ renewal = [c \in CallIds |-> "none"]
    /\ newToken = [c \in CallIds |-> Null]
    /\ nRefresh = [c \in CallIds |-> 0]
    /\ nUnauth = [c \in CallIds |-> 0]
    /\ nHandled = [c \in CallIds |-> 0]
    /\ overlap = {}
    /\ appToken = store.access_token
    /\ delivered = <<>>
    /\ panel = InitPanel
    /\ wrapper = NoWrapperCall

\* the App until its token next becomes set: the ChatPanel's calls, the
\* responses and the logout
AppNext ==
    \/ \E c \in CallIds : Request(c, ChatPath)
    \/ \E c \in CallIds, body \in MeBodies \cup {Cleared} : ResponseOk(c, body)
    \/ \E c \in CallIds, st \in ErrStatuses : ResponseError(c, st)
    \/ \E c \in CallIds, b \in RefreshBodies : RefreshOk(c, b)
    \/ \E c \in CallIds, st \in ErrStatuses : RefreshFail(c, st)
    \/ handleLogout

AppSpec == AppInit /\ [][AppNext]_vars

(* ---------------------- calls to the /auth/ endpoints ------------------ *)

\* urls the auth wrappers post to, and a url of the renewal endpoint
AuthUrls == {LoginPath, VerifyPath, <<"v1", "auth", "refresh">>}

\* the interceptors under callers of the auth wrappers (loginUser,
\* verifyPasswordResetOtp): any of them may call at any time
AuthNext ==
    \/ \E c \in CallIds, u \in AuthUrls : Request(c, u)
    \/ \E c \in CallIds, body \in LoginBodies \cup {Cleared} : ResponseOk(c, body)
    \/ \E c \in CallIds, st \in ErrStatuses : ResponseError(c, st)
    \/ \E c \in CallIds, b \in RefreshBodies : RefreshOk(c, b)
    \/ \E c \in CallIds, st \in ErrStatuses : RefreshFail(c, st)
    \/ handleLogout

AuthSpec == Init /\ [][AuthNext]_vars

(* ---------------------- the api wrappers' catch blocks ----------------- *)

AuthWrappers ==
    {"registerUser", "loginUser", "requestPasswordResetOtp",
     "verifyPasswordResetOtp", "resetPasswordWithOtp", "getCurrentUser"}

AnswerWrappers ==
    {"askQuestion", "retrieveDocuments", "listThreads", "listThreadMessages",
     "deleteThread"}

\* error.response?.data, undefined when there is no response
ResponseData(err) == IF err.response THEN err.data ELSE EmptyBody

\* the object literal in the wrapper's throw statement
Fallback(name) ==
    IF name \in AuthWrappers
    THEN [error |-> IF name = "registerUser" THEN "Registration failed"
                    ELSE IF name = "loginUser" THEN "Login failed"
                    ELSE IF name = "requestPasswordResetOtp"
                    THEN "Failed to send OTP"
                    ELSE IF name = "verifyPasswordResetOtp" THEN "Invalid OTP"
                    ELSE IF name = "resetPasswordWithOtp"
                    THEN "Failed to reset password"
                    ELSE "Failed to load current user"]
    ELSE [error |-> "Network error",
          message |-> IF name = "listThreads" THEN "Unable to load threads"
                      ELSE IF name = "listThreadMessages"
                      THEN "Unable to load messages"
                      ELSE IF name = "deleteThread"
                      THEN "Unable to delete thread"
                      ELSE "Unable to connect to server"]

\* catch (error) { throw error.response?.data || {...} } of the auth
\* wrappers; if (error.response?.data) throw error.response.data; throw
\* {...} of the answer and thread wrappers
Rejection(name, err) ==
    IF ResponseData(err) # EmptyBody THEN ResponseData(err)
    ELSE Fallback(name)

\* the call made through the wrapper fails: its catch block runs
WrapperCatch ==
    /\ wrapper.name # ""
    /\ wrapper.thrown = NotThrown
    /\ wrapper' = [wrapper EXCEPT !.thrown = Rejection(wrapper.name, wrapper.error)]
    /\ UNCHANGED <<store, callVars, appToken, delivered, panel>>

WrapperInit ==
    /\ InitApp
    /\ store = Cleared
    /\ wrapper \in [name : AuthWrappers \cup AnswerWrappers,
                    error : TransportErrors,
                    thrown : {NotThrown}]

WrapperNext == WrapperCatch

\* every wrapper's catch block on every error it can be given
WrapperSpec == WrapperInit /\ [][WrapperNext]_vars

\* C26: a wrapper that fails throws the body of the server's response when
\* there is one, and otherwise an object with both an error and a message
\* field; it never throws the error it caught.
C26_StructuredRejection ==
    wrapper.thrown # NotThrown
      => /\ wrapper.thrown # wrapper.error
         /\ IF wrapper.error.response /\ wrapper.error.data # EmptyBody
            THEN wrapper.thrown = wrapper.error.data
            ELSE {"error", "message"} \subseteq DOMAIN wrapper.thrown

\* C27: once the store has been cleared, access_token, refresh_token and
\* role stay absent until a login call resolves, whatever calls were in
\* flight when it was cleared.
C27_ClearedUntilLogin ==
    [][(store = Cleared /\ store' # Cleared)
          => \E c \in CallIds :
                /\ config[c].url = LoginPath
                /\ pc[c] \in {"sent", "replayed"}
                /\ pc'[c] = "settled"
                /\ outcome'[c].kind = "resolve"]_vars

\* C28: when the renewal call of c resolves with a body without
\* access_token, the request is not transmitted again, the three fields of
\* the store are cleared, auth:unauthorized is dispatched once, and the
\* caller's promise rejects with the 401 error of the first transmission.
C28_EmptyRenewalFails ==
    [][\A c \in CallIds :
          (pc[c] = "refreshing" /\ renewal'[c] = "empty")
             => /\ store' = Cleared
                /\ nTx' = nTx
                /\ pc'[c] = "settled"
                /\ nUnauth'[c] = nUnauth[c] + 1
                /\ Len(delivered') = 1
                /\ outcome'[c] = [kind |-> "reject", attempt |-> 1,
                                  status |-> 401]]_vars

\* a call rejected after a renewal that resolved without a token
C28_Witness ==
    \E c \in CallIds :
        /\ renewal[c] = "empty"
        /\ pc[c] = "settled"
        /\ nTx[c] = 1
        /\ outcome[c].kind = "reject"
        /\ store = Cleared
        /\ Len(delivered) = 1

\* C29: the step in which a renewal resolves with a token changes
\* access_token only: refresh_token and role are what they were.
C29_RenewalFrame ==
    [][\A c \in CallIds :
          (pc[c] = "refreshing" /\ renewal'[c] = "ok")
             => /\ store'.access_token = newToken'[c]
                /\ store'.refresh_token = store.refresh_token
                /\ store'.role = store.role]_vars

\* a renewal has replaced a1 by a2 next to the refresh_token and role of
\* the session
C29_Witness ==
    \E c \in CallIds :
        /\ renewal[c] = "ok"
        /\ pc[c] = "replayed"
        /\ store = [access_token |-> "a2", refresh_token |-> "r1",
                    role |-> "user"]

\* C30: whatever the path of a call, the renewal endpoint apart: when its
\* first transmission is answered 401 while no refresh_token is stored, the
\* store is cleared, auth:unauthorized is dispatched and the call rejects
\* with that 401; while a refresh_token is stored, a renewal call is issued
\* instead, and when that resolves with a token the same request is
\* transmitted again.
C30_PathAgnostic ==
    [][\A c \in CallIds :
          /\ (/\ pc[c] = "sent"
              /\ nHandled'[c] = nHandled[c] + 1
              /\ error'[c].status = 401
              /\ ~Includes(config[c].url, RefreshPath))
                => IF Truthy(store.refresh_token)
                   THEN /\ pc'[c] = "refreshing"
                        /\ nRefresh'[c] = nRefresh[c] + 1
                        /\ store' = store
                        /\ delivered' = <<>>
                   ELSE /\ pc'[c] = "settled"
                        /\ nRefresh'[c] = 0
                        /\ store' = Cleared
                        /\ Len(delivered') = 1
                        /\ outcome'[c] = [kind |-> "reject", attempt |-> 1,
                                          status |-> 401]
          /\ (pc[c] = "refreshing" /\ renewal'[c] = "ok")
                => /\ pc'[c] = "replayed"
                   /\ nTx'[c] = 2
                   /\ config'[c].url = config[c].url
                   /\ config'[c].data = config[c].data]_vars

\* the 401 of a verify-otp call met a stored refresh_token and the call
\* was replayed after its renewal; the 401 of another call met none and
\* the call was rejected, the store cleared
C30_Witness ==
    \E c, d \in CallIds :
        /\ config[c].url = VerifyPath
        /\ pc[c] = "replayed"
        /\ nRefresh[c] = 1
        /\ outcome[d] = [kind |-> "reject", attempt |-> 1, status |-> 401]
        /\ nRefresh[d] = 0
        /\ nUnauth[d] = 1

\* C31: every verify-otp and reset-password call carries the email of the
\* most recent forgot-password call that resolved for this AuthPanel.
C31_CodeEmail ==
    [][\A c \in CallIds :
          (/\ config'[c].url \in {VerifyPath, ResetPath}
           /\ config'[c].url # config[c].url)
             => config'[c].data.email = panel.codeEmail]_vars

\* C32: a login call that resolves leaves refresh_token stored as a string,
\* the empty string when the response carried none; a 401 handled while
\* the stored refresh_token is the empty string starts no renewal and
\* terminates the session at once; a request transmitted while the stored
\* access_token is the empty string gets no Authorization header.
C32_EmptyIsAbsent ==
    [][\A c \in CallIds :
          /\ (/\ config[c].url = LoginPath
              /\ pc[c] \in {"sent", "replayed"}
              /\ pc'[c] = "settled"
              /\ outcome'[c].kind = "resolve")
                => store'.refresh_token \in RefreshTokens \cup {Empty}
          /\ (/\ nHandled'[c] = nHandled[c] + 1
              /\ error'[c].status = 401
              /\ store.refresh_token = Empty)
                => /\ pc'[c] = "settled"
                   /\ nRefresh'[c] = nRefresh[c]
                   /\ renewal'[c] = renewal[c]
                   /\ store' = Cleared
                   /\ Len(delivered') = 1
                   /\ outcome'[c].kind = "reject"
          /\ (pc[c] = "idle" /\ pc'[c] = "sent" /\ store.access_token = Empty)
                => config'[c].Authorization = NoHeader]_vars

\* a login stored an empty access_token and an empty refresh_token, and a
\* later request has been sent without an Authorization header
C32_Witness ==
    \E c, d \in CallIds :
        /\ outcome[c].kind = "resolve"
        /\ store.access_token = Empty
        /\ store.refresh_token = Empty
        /\ pc[d] = "sent"
        /\ config[d].Authorization = NoHeader

====
